---- MODULE Spec2Model ----
(***************************************************************************)
(* A model of the data-staining budget test: the budget sweep of run_seed  *)
(* (src/budget_test.py), the seed orchestrator of its __main__ block, and  *)
(* the helpers of src/utils.py (oversample, train_models, evaluate_models, *)
(* save_log).  Each part is a specification of its own over its own group  *)
(* of variables; the other groups stay at their idle values.               *)
(***************************************************************************)
EXTENDS Integers, Sequences, FiniteSets, TLC

VARIABLES
    \* run_seed, the budget sweep
    args, EXPLAINERS, bias_words, n_samples, pc, name_idx, budget, i,
    recall, recall_sum, runlog, log, written, explain_calls, raised,
    \* __main__, the seed orchestrator
    cli, POOL_SIZE, main_pc, status, dispatched, chunk, taskq, number_left,
    success, errors,
    \* utils.oversample
    train_df, r_factor, ov_pc, resampled,
    \* utils.train_models
    tr_df, model_type, bias_only, tr_pc, fit_orig, fit_bias,
    \* utils.evaluate_models
    test_df, model_orig, model_bias, ev_runlog, ev_pc, ev_in,
    \* utils.save_log
    log_dir, files, saves, sl_pc,
    \* one process running run_seed for several seeds
    proc_args, runner, plan, at, sys_stdout, proc_EXPLAINERS, np_random,
    frame, seen

sweepVars == <<args, EXPLAINERS, bias_words, n_samples, pc, name_idx, budget, i,
               recall, recall_sum, runlog, log, written, explain_calls, raised>>

orchVars == <<cli, POOL_SIZE, main_pc, status, dispatched, chunk, taskq,
              number_left, success, errors>>

ovVars == <<train_df, r_factor, ov_pc, resampled>>

trVars == <<tr_df, model_type, bias_only, tr_pc, fit_orig, fit_bias>>

evVars == <<test_df, model_orig, model_bias, ev_runlog, ev_pc, ev_in>>

slVars == <<log_dir, files, saves, sl_pc>>

procVars == <<proc_args, runner, plan, at, sys_stdout, proc_EXPLAINERS,
              np_random, frame, seen>>

vars == <<sweepVars, orchVars, ovVars, trVars, evVars, slVars, procVars>>

\* what the actions of one part leave alone
restOfSweep == <<orchVars, ovVars, trVars, evVars, slVars, procVars>>
restOfOrch == <<sweepVars, ovVars, trVars, evVars, slVars, procVars>>
restOfOv == <<sweepVars, orchVars, trVars, evVars, slVars, procVars>>
restOfTr == <<sweepVars, orchVars, ovVars, evVars, slVars, procVars>>
restOfEv == <<sweepVars, orchVars, ovVars, trVars, slVars, procVars>>
restOfSl == <<sweepVars, orchVars, ovVars, trVars, evVars, procVars>>
restOfProc == <<sweepVars, orchVars, ovVars, trVars, evVars, slVars>>

----------------------------------------------------------------------------
(* Bounds of the model *)

\* the largest bias_length given on the command line
MaxBiasLen == 2
\* the largest number of biased training rows (len(X_explain))
MaxExplain == 2
\* the largest SEED_HIGH given on the command line
MaxSeedHigh == 9
\* the largest number of rows of a training frame
MaxRows == 4
\* r_factor is a number of quarters, up to this many
MaxQuarters == 5
\* the largest number of rows of the frame train_models is given
MaxTrainRows == 3
\* the largest number of rows of the frame evaluate_models is given
MaxTestRows == 2
\* the largest number of records saved in one run of the save_log model
MaxSaves == 2
\* the largest number of seeds one process runs one after another
MaxProcSeeds == 3

(* Program constants *)

MAX_BUDGET == 5
N_SAMPLES == 50
LOGGING_ENABLED == TRUE
TEST_NAME == "budget_test"
LOG_PATH == "logs"

\* the keys of MODELS
MODELS == {"dt", "logistic", "rf"}

\* the explainer registry as the module defines it, in insertion order
BaseExplainers == <<"Random", "Greedy", "LIME", "SHAP(kmeans)">>

\* the vocabulary of the vectorizer (feature_names)
FeatureNames == {"w1", "w2", "w3"}

\* the seeds the sweep is run for
SweepSeeds == {3, 12}

NoName == "-"

----------------------------------------------------------------------------
(* Helpers: dictionaries, exact fractions, str.format *)

\* d[k] = v on a Python dict
Put(d, k, v) == [x \in (DOMAIN d) \cup {k} |-> IF x = k THEN v ELSE d[x]]

Min(a, b) == IF a <= b THEN a ELSE b

RECURSIVE GCD(_, _)
GCD(a, b) == IF b = 0 THEN a ELSE GCD(b, a % b)

\* a fraction <<n, d>>, d > 0, in lowest terms
Norm(q) == LET g == GCD(q[1], q[2]) IN IF g = 0 THEN q ELSE <<q[1] \div g, q[2] \div g>>
RatAdd(a, b) == Norm(<<a[1] * b[2] + b[1] * a[2], a[2] * b[2]>>)
RatDivInt(a, k) == Norm(<<a[1], a[2] * k>>)
RatLeq(a, b) == a[1] * b[2] <= b[1] * a[2]
Zero == <<0, 1>>
One == <<1, 1>>

DigitChar == <<"0", "1", "2", "3", "4", "5", "6", "7", "8", "9">>

RECURSIVE Digits(_)
Digits(n) == IF n < 10 THEN <<DigitChar[n + 1]>>
             ELSE Digits(n \div 10) \o <<DigitChar[(n % 10) + 1]>>

RECURSIVE ZeroPad(_, _)
ZeroPad(ds, w) == IF Len(ds) >= w THEN ds ELSE ZeroPad(<<"0">> \o ds, w)

\* '{:0wd}'.format(n)
FmtD(n, w) == IF n < 0 THEN <<"-">> \o ZeroPad(Digits(-n), w - 1)
              ELSE ZeroPad(Digits(n), w)

----------------------------------------------------------------------------
(* run_seed: the budget sweep (src/budget_test.py, lines 158-206) *)

\* EXPLAINERS['Ground Truth'] = ...: a dict keeps the position of a key it has
SetGroundTruth(reg) ==
    IF \E k \in 1..Len(reg) : reg[k] = "Ground Truth" THEN reg
    ELSE Append(reg, "Ground Truth")

\* a budget range that stops one short: range(1, MAX_BUDGET)
BudgetRangeShort == 1..(MAX_BUDGET - 1)

\* range(1, MAX_BUDGET + 1)
BudgetRange == 1..MAX_BUDGET

\* what explain(instance, budget) may return: at most budget feature names
\* (only membership is read, so the ranking is kept as a set)
ExplainOutputs(b) == {t \in SUBSET FeatureNames : Cardinality(t) <= b}

\* recall = 0; for word in bias_words: if word in top_feats: recall += 1
Hits(top_feats) == Cardinality(bias_words \cap top_feats)

\* a sum that is carried over from the previous budget instead of being reset
KeepSum(carry) == carry

\* recall_sum = 0 at the head of the budget's body
ResetSum(carry) == Zero

\* '{:s}_{:d}_{:03d}_{:02d}.json'.format(name, bias_length, seed, budget)
FileName(nm, bl, sd, b) == <<nm, "_">> \o FmtD(bl, 1) \o <<"_">> \o FmtD(sd, 3)
                           \o <<"_">> \o FmtD(b, 2) \o <<".json">>

\* utils.save_log(LOG_PATH, filename, runlog): the record is written to a file
\* of that name; log keeps, for each write, the file and the record's index
Persist(lg, file, rl) ==
    Append(lg, [file |-> file, explainer |-> rl.explainer, budget |-> rl.budget,
                seed |-> rl.seed])

name == IF name_idx \in 1..Len(EXPLAINERS) THEN EXPLAINERS[name_idx] ELSE NoName

Pairs == {"Random", "Greedy", "LIME", "SHAP(kmeans)", "Ground Truth"} \X (1..(MAX_BUDGET + 1))

IdleSweep ==
    /\ args = [model |-> "dt", bias_length |-> 1, seed |-> 0]
    /\ EXPLAINERS = BaseExplainers
    /\ bias_words = {}
    /\ n_samples = 0
    /\ pc = "idle"
    /\ name_idx = 0
    /\ budget = 0
    /\ i = 0
    /\ recall = Zero
    /\ recall_sum = Zero
    /\ runlog = [test_name |-> TEST_NAME]
    /\ log = <<>>
    /\ written = [test_name |-> TEST_NAME]
    /\ explain_calls = [p \in Pairs |-> 0]
    /\ raised = NoName

InitSweep ==
    /\ args \in [model : MODELS, bias_length : 0..MaxBiasLen, seed : SweepSeeds]
    /\ EXPLAINERS \in {BaseExplainers, SetGroundTruth(BaseExplainers)}
    /\ bias_words \in {w \in SUBSET FeatureNames : Cardinality(w) = args.bias_length}
    /\ \E len_explain \in 0..MaxExplain : n_samples = Min(N_SAMPLES, len_explain)
    /\ pc = "resolve"
    /\ name_idx = 0
    /\ budget = 0
    /\ i = 0
    /\ recall = Zero
    /\ recall_sum = Zero
    /\ runlog = [test_name |-> TEST_NAME, seed |-> args.seed, n_samples |-> n_samples]
    /\ log = <<>>
    /\ written = [test_name |-> TEST_NAME]
    /\ explain_calls = [p \in Pairs |-> 0]
    /\ raised = NoName

\* lines 158-162: the interpretable models get their ground-truth explainer
ResolveExplainers ==
    /\ pc = "resolve"
    /\ EXPLAINERS' = IF args.model = "logistic" THEN SetGroundTruth(EXPLAINERS)
                     ELSE IF args.model = "dt" \/ args.model = "rf"
                          THEN SetGroundTruth(EXPLAINERS)
                          ELSE EXPLAINERS
    /\ name_idx' = 1
    /\ pc' = "explainer"
    /\ UNCHANGED <<args, bias_words, n_samples, budget, i, recall, recall_sum,
                   runlog, log, written, explain_calls, raised>>
    /\ UNCHANGED restOfSweep

\* lines 164-174: the next explainer is constructed; after the last, run_seed returns
NextExplainer ==
    /\ pc = "explainer"
    /\ IF name_idx > Len(EXPLAINERS)
       THEN /\ pc' = "done"
            /\ UNCHANGED <<runlog, budget>>
       ELSE /\ runlog' = Put(runlog, "explainer", name)
            /\ budget' = 1
            /\ pc' = "budget"
    /\ UNCHANGED <<args, EXPLAINERS, bias_words, n_samples, name_idx, i, recall,
                   recall_sum, log, written, explain_calls, raised>>
    /\ UNCHANGED restOfSweep

\* lines 169-174: the constructor raises; nothing in run_seed catches it
ConstructRaises ==
    /\ pc = "explainer"
    /\ name_idx <= Len(EXPLAINERS)
    /\ runlog' = Put(runlog, "explainer", name)
    /\ raised' = name
    /\ pc' = "error"
    /\ UNCHANGED <<args, EXPLAINERS, bias_words, n_samples, name_idx, budget, i,
                   recall, recall_sum, log, written, explain_calls>>
    /\ UNCHANGED restOfSweep

\* lines 176-181: the head of the budget loop
BeginBudget ==
    /\ pc = "budget"
    /\ IF budget \in BudgetRange
       THEN /\ runlog' = Put(runlog, "budget", budget)
            /\ recall_sum' = ResetSum(recall_sum)
            /\ i' = 0
            /\ pc' = "sample"
            /\ UNCHANGED name_idx
       ELSE /\ name_idx' = name_idx + 1
            /\ pc' = "explainer"
            /\ UNCHANGED <<runlog, recall_sum, i>>
    /\ UNCHANGED <<args, EXPLAINERS, bias_words, n_samples, budget, recall, log,
                   written, explain_calls, raised>>
    /\ UNCHANGED restOfSweep

\* lines 183-195: one instance is explained and its recall added to the sum;
\* recall /= args.bias_length raises ZeroDivisionError for bias_length 0
Explain ==
    /\ pc = "sample"
    /\ i < n_samples
    /\ explain_calls' = [explain_calls EXCEPT ![<<name, budget>>] = @ + 1]
    /\ \E top_feats \in ExplainOutputs(budget) :
         IF args.bias_length = 0
         THEN /\ pc' = "error"
              /\ UNCHANGED <<recall, recall_sum, i>>
         ELSE /\ recall' = Norm(<<Hits(top_feats), args.bias_length>>)
              /\ recall_sum' = RatAdd(recall_sum, recall')
              /\ i' = i + 1
              /\ pc' = "sample"
    /\ UNCHANGED <<args, EXPLAINERS, bias_words, n_samples, name_idx, budget,
                   runlog, log, written, raised>>
    /\ UNCHANGED restOfSweep

\* line 185: explain raises; nothing in run_seed catches it
ExplainRaises ==
    /\ pc = "sample"
    /\ i < n_samples
    /\ explain_calls' = [explain_calls EXCEPT ![<<name, budget>>] = @ + 1]
    /\ raised' = name
    /\ pc' = "error"
    /\ UNCHANGED <<args, EXPLAINERS, bias_words, n_samples, name_idx, budget, i,
                   recall, recall_sum, runlog, log, written>>
    /\ UNCHANGED restOfSweep

\* lines 197-206: the mean recall is stored in the run log and the record saved;
\* recall_sum / n_samples raises ZeroDivisionError when nothing was explained
SaveRecord ==
    /\ pc = "sample"
    /\ i = n_samples
    /\ IF n_samples = 0
       THEN /\ pc' = "error"
            /\ UNCHANGED <<recall, runlog, log, written, budget>>
       ELSE /\ recall' = RatDivInt(recall_sum, n_samples)
            /\ runlog' = Put(runlog, "recall", recall')
            /\ IF LOGGING_ENABLED
               THEN /\ log' = Persist(log, FileName(name, args.bias_length,
                                                     args.seed, budget), runlog')
                    /\ written' = runlog'
               ELSE UNCHANGED <<log, written>>
            /\ budget' = budget + 1
            /\ pc' = "budget"
    /\ UNCHANGED <<args, EXPLAINERS, bias_words, n_samples, name_idx, i,
                   recall_sum, explain_calls, raised>>
    /\ UNCHANGED restOfSweep

NextSweep ==
    \/ ResolveExplainers
    \/ NextExplainer
    \/ ConstructRaises
    \/ BeginBudget
    \/ Explain
    \/ ExplainRaises
    \/ SaveRecord

----------------------------------------------------------------------------
(* __main__: the seeds are mapped over a pool, or run in a loop            *)
(* (src/budget_test.py, lines 250-270).  A runner is the main process (0,  *)
(* the loop) or a pool worker (1..POOL_SIZE); chunk[r] holds the seeds of  *)
(* the task it is running, the first being the seed it is at.              *)

\* the model names given on the command line: a key of MODELS and another name
CliModels == {"logistic", "mlp"}

\* the values POOL_SIZE is set to: the loop (1) and a pool.  The module sets
\* 10; a pool of 2 cuts the seeds into tasks the same way, 4 * POOL_SIZE of them
PoolSizes == {1, 2}
Runners == 0..2

AllSeeds == 0..(MaxSeedHigh - 1)

\* range(args.seed_low, args.seed_high)
Seeds(c) == c.seed_low..(c.seed_high - 1)
SeedSeq(c) == [k \in 1..(c.seed_high - c.seed_low) |-> c.seed_low + k - 1]

\* argument checks that forget the model name
CheckArgsNoModel(c) ==
    IF ~(c.seed_low < c.seed_high) THEN "assert_seeds" ELSE "main"

\* setup_argparse, lines 250-257: the two assertions, in their order
CheckArgs(c) ==
    IF ~(c.seed_low < c.seed_high) THEN "assert_seeds"
    ELSE IF ~(c.model \in MODELS) THEN "assert_model"
    ELSE "main"

\* Pool._map_async: chunksize, extra = divmod(len(iterable), len(pool) * 4)
ChunkSize(n, p) == (n \div (p * 4)) + (IF n % (p * 4) # 0 THEN 1 ELSE 0)

RECURSIVE Batches(_, _)
\* Pool._get_tasks: the iterable cut into slices of chunksize
Batches(sq, size) ==
    IF sq = <<>> THEN <<>>
    ELSE IF Len(sq) <= size THEN <<sq>>
    ELSE <<SubSeq(sq, 1, size)>> \o Batches(SubSeq(sq, size + 1, Len(sq)), size)

IdleOrch ==
    /\ cli = [model |-> "dt", seed_low |-> 0, seed_high |-> 0]
    /\ POOL_SIZE = 1
    /\ main_pc = "idle"
    /\ status = [s \in AllSeeds |-> "pending"]
    /\ dispatched = [s \in AllSeeds |-> 0]
    /\ chunk = [r \in Runners |-> <<>>]
    /\ taskq = <<>>
    /\ number_left = 0
    /\ success = TRUE
    /\ errors = {}

InitOrch ==
    /\ cli \in [model : CliModels, seed_low : 0..1, seed_high : 0..MaxSeedHigh]
    /\ POOL_SIZE \in PoolSizes
    /\ main_pc = "parse"
    /\ status = [s \in AllSeeds |-> "pending"]
    /\ dispatched = [s \in AllSeeds |-> 0]
    /\ chunk = [r \in Runners |-> <<>>]
    /\ taskq = <<>>
    /\ number_left = 0
    /\ success = TRUE
    /\ errors = {}

\* lines 251-257: the arguments pass both assertions
ParseArgs ==
    /\ main_pc = "parse"
    /\ CheckArgs(cli) = "main"
    /\ main_pc' = "main"
    /\ UNCHANGED <<cli, POOL_SIZE, status, dispatched, chunk, taskq, number_left,
                   success, errors>>
    /\ UNCHANGED restOfOrch

\* line 252: assert (args.seed_low < args.seed_high)
RejectSeeds ==
    /\ main_pc = "parse"
    /\ CheckArgs(cli) = "assert_seeds"
    /\ main_pc' = "assert_seeds"
    /\ UNCHANGED <<cli, POOL_SIZE, status, dispatched, chunk, taskq, number_left,
                   success, errors>>
    /\ UNCHANGED restOfOrch

\* line 254: assert args.model in MODELS
RejectModel ==
    /\ main_pc = "parse"
    /\ CheckArgs(cli) = "assert_model"
    /\ main_pc' = "assert_model"
    /\ UNCHANGED <<cli, POOL_SIZE, status, dispatched, chunk, taskq, number_left,
                   success, errors>>
    /\ UNCHANGED restOfOrch

\* lines 263-265: pool.map(run_seed, seeds) queues the seeds in chunks
StartPool ==
    /\ main_pc = "main"
    /\ POOL_SIZE > 1
    /\ taskq' = Batches(SeedSeq(cli), ChunkSize(Len(SeedSeq(cli)), POOL_SIZE))
    /\ number_left' = Len(taskq')
    /\ main_pc' = "map"
    /\ UNCHANGED <<cli, POOL_SIZE, status, dispatched, chunk, success, errors>>
    /\ UNCHANGED restOfOrch

\* lines 268-270: for seed in seeds: run_seed(seed)
StartLoop ==
    /\ main_pc = "main"
    /\ ~(POOL_SIZE > 1)
    /\ chunk' = [chunk EXCEPT ![0] = SeedSeq(cli)]
    /\ main_pc' = "loop"
    /\ UNCHANGED <<cli, POOL_SIZE, status, dispatched, taskq, number_left,
                   success, errors>>
    /\ UNCHANGED restOfOrch

\* a pool worker takes the next task off the queue
TakeTask(w) ==
    /\ main_pc = "map"
    /\ w \in 1..POOL_SIZE
    /\ chunk[w] = <<>>
    /\ taskq # <<>>
    /\ chunk' = [chunk EXCEPT ![w] = Head(taskq)]
    /\ taskq' = Tail(taskq)
    /\ UNCHANGED <<cli, POOL_SIZE, main_pc, status, dispatched, number_left,
                   success, errors>>
    /\ UNCHANGED restOfOrch

Running(r) == chunk[r] # <<>> /\ (IF r = 0 THEN main_pc = "loop" ELSE main_pc = "map")

\* run_seed raised in runner r: the loop ends with the exception; a worker
\* reports its task as failed, and the seeds left in the task are not run
Abort(r) ==
    /\ chunk' = [chunk EXCEPT ![r] = <<>>]
    /\ IF r = 0
       THEN /\ main_pc' = "raised"
            /\ UNCHANGED <<number_left, success>>
       ELSE /\ number_left' = number_left - 1
            /\ success' = FALSE
            /\ UNCHANGED main_pc

\* run_seed, lines 72-92: the run of a seed starts (run log, generator, data)
BeginSeed(r) ==
    /\ Running(r)
    /\ status[Head(chunk[r])] = "pending"
    /\ status' = [status EXCEPT ![Head(chunk[r])] = "loading"]
    /\ dispatched' = [dispatched EXCEPT ![Head(chunk[r])] = @ + 1]
    /\ UNCHANGED <<cli, POOL_SIZE, main_pc, chunk, taskq, number_left, success, errors>>
    /\ UNCHANGED restOfOrch

\* run_seed, lines 95-104: the bias words are chosen from the seed's split
BuildBias(r) ==
    /\ Running(r)
    /\ status[Head(chunk[r])] = "loading"
    /\ status' = [status EXCEPT ![Head(chunk[r])] = "running"]
    /\ UNCHANGED <<cli, POOL_SIZE, main_pc, dispatched, chunk, taskq, number_left,
                   success, errors>>
    /\ UNCHANGED restOfOrch

\* run_seed, line 95: the split has fewer candidate words than bias_length
BiasFails(r) ==
    /\ Running(r)
    /\ status[Head(chunk[r])] = "loading"
    /\ status' = [status EXCEPT ![Head(chunk[r])] = "failed"]
    /\ errors' = errors \cup {"InsufficientVocabulary"}
    /\ Abort(r)
    /\ UNCHANGED <<cli, POOL_SIZE, dispatched, taskq>>
    /\ UNCHANGED restOfOrch

\* run_seed, lines 106-206: the rest of the run, to its return
FinishSeed(r) ==
    /\ Running(r)
    /\ status[Head(chunk[r])] = "running"
    /\ status' = [status EXCEPT ![Head(chunk[r])] = "done"]
    /\ chunk' = [chunk EXCEPT ![r] = Tail(chunk[r])]
    /\ IF r = 0
       THEN /\ main_pc' = IF Tail(chunk[r]) = <<>> THEN "exit" ELSE main_pc
            /\ UNCHANGED number_left
       ELSE /\ number_left' = IF Tail(chunk[r]) = <<>> THEN number_left - 1
                              ELSE number_left
            /\ UNCHANGED main_pc
    /\ UNCHANGED <<cli, POOL_SIZE, dispatched, taskq, success, errors>>
    /\ UNCHANGED restOfOrch

\* run_seed, lines 106-206: resampling, training or an explainer raises
SeedFails(r) ==
    /\ Running(r)
    /\ status[Head(chunk[r])] = "running"
    /\ status' = [status EXCEPT ![Head(chunk[r])] = "failed"]
    /\ errors' = errors \cup {"Error"}
    /\ Abort(r)
    /\ UNCHANGED <<cli, POOL_SIZE, dispatched, taskq>>
    /\ UNCHANGED restOfOrch

\* lines 265-267: map returns once every task has reported, and re-raises the
\* first exception; otherwise the pool is closed and joined
MapReturns ==
    /\ main_pc = "map"
    /\ number_left = 0
    /\ main_pc' = IF success THEN "exit" ELSE "raised"
    /\ UNCHANGED <<cli, POOL_SIZE, status, dispatched, chunk, taskq, number_left,
                   success, errors>>
    /\ UNCHANGED restOfOrch

NextOrch ==
    \/ ParseArgs
    \/ RejectSeeds
    \/ RejectModel
    \/ StartPool
    \/ StartLoop
    \/ \E w \in Runners : TakeTask(w)
    \/ \E r \in Runners : BeginSeed(r)
    \/ \E r \in Runners : BuildBias(r)
    \/ \E r \in Runners : BiasFails(r)
    \/ \E r \in Runners : FinishSeed(r)
    \/ \E r \in Runners : SeedFails(r)
    \/ MapReturns

----------------------------------------------------------------------------
(* utils.oversample (src/utils.py, lines 36-58).  A frame is the sequence  *)
(* of its rows; a row is its content x and its biased flag.  r_factor is a *)
(* fraction <<n, 4>>: quarters are exact in floating point.                *)

Rows == [x : 0..1, biased : BOOLEAN]

RECURSIVE Frames(_)
Frames(n) == IF n = 0 THEN {<<>>}
             ELSE Frames(n - 1) \cup {Append(f, r) : f \in {g \in Frames(n - 1) : Len(g) = n - 1}, r \in Rows}

RFactors == {<<n, 4>> : n \in 1..MaxQuarters}

\* train_df['biased'].value_counts()[b]
Count(df, b) == Cardinality({k \in 1..Len(df) : df[k].biased = b})

\* int(v) for the fraction n / d: truncation toward zero
IntOf(n, d) == IF n >= 0 THEN n \div d ELSE -((-n) \div d)

\* diff = int( (not_R_count - R_count) * r_factor )
Diff(df, rf) == IntOf((Count(df, FALSE) - Count(df, TRUE)) * rf[1], rf[2])

\* a test that lets a difference of zero through
DiffNonNegative(d) == d >= 0

\* if diff > 0
DiffPositive(d) == d > 0

\* rows drawn from the whole frame
SamplePoolAll(df) == 1..Len(df)

\* train_df[train_df['biased']]: the rows sample draws from
SamplePool(df) == {k \in 1..Len(df) : df[k].biased}

\* both counts[0] and counts[1] exist
BothClasses(df) == Count(df, FALSE) > 0 /\ Count(df, TRUE) > 0

IdleOv ==
    /\ train_df = <<>>
    /\ r_factor = <<4, 4>>
    /\ ov_pc = "idle"
    /\ resampled = <<>>

InitOv ==
    /\ train_df \in Frames(MaxRows)
    /\ r_factor \in RFactors
    /\ ov_pc = "call"
    /\ resampled = <<>>

\* lines 44-47 and 52-58: diff rows are drawn with replacement from the biased
\* rows and appended to a new frame, which is returned
OversampleReturns ==
    /\ ov_pc = "call"
    /\ BothClasses(train_df)
    /\ DiffPositive(Diff(train_df, r_factor))
    /\ \E picks \in [1..Diff(train_df, r_factor) -> SamplePool(train_df)] :
         resampled' = train_df \o [k \in 1..Diff(train_df, r_factor) |-> train_df[picks[k]]]
    /\ ov_pc' = "returned"
    /\ UNCHANGED <<train_df, r_factor>>
    /\ UNCHANGED restOfOv

\* lines 48-49: assert False
OversampleAsserts ==
    /\ ov_pc = "call"
    /\ BothClasses(train_df)
    /\ ~DiffPositive(Diff(train_df, r_factor))
    /\ ov_pc' = "AssertionError"
    /\ UNCHANGED <<train_df, r_factor, resampled>>
    /\ UNCHANGED restOfOv

\* lines 38-40: the frame has no non-biased row or no biased row, and
\* counts[0] or counts[1] does not exist
OversampleLookupError ==
    /\ ov_pc = "call"
    /\ ~BothClasses(train_df)
    /\ ov_pc' = "LookupError"
    /\ UNCHANGED <<train_df, r_factor, resampled>>
    /\ UNCHANGED restOfOv

NextOv ==
    \/ OversampleReturns
    \/ OversampleAsserts
    \/ OversampleLookupError

----------------------------------------------------------------------------
(* utils.train_models (src/utils.py, lines 61-123).  A fit is recorded as  *)
(* the data, the labels and the sample weights the classifier was given.   *)

\* a row of a labelled frame: the labels differ on biased rows only
LabelledRows == {r \in [reviews : 0..1, label_orig : 0..1, label_bias : 0..1,
                        biased : BOOLEAN] : r.biased \/ r.label_bias = r.label_orig}

RECURSIVE LabelledFrames(_)
LabelledFrames(n) ==
    IF n = 0 THEN {<<>>}
    ELSE LabelledFrames(n - 1)
         \cup {Append(f, r) : f \in {g \in LabelledFrames(n - 1) : Len(g) = n - 1},
                              r \in LabelledRows}

ModelTypes == {"logistic", "rf", "mlp", "lstm"}

NotFitted == [fitted |-> FALSE, data |-> <<>>, y |-> <<>>, sample_weight |-> <<>>]

\* train_df[col].values
Column(df, col) == [k \in 1..Len(df) |-> df[k][col]]

\* r = train_df['biased'].sum()
RCount(df) == Cardinality({k \in 1..Len(df) : df[k].biased})

\* lines 70-74: sample_weight_orig
SampleWeightOrig(df) == [k \in 1..Len(df) |-> One]

\* lines 70-74: sample_weight_bias, 1.0 if biased else r / nr
SampleWeightBias(df) ==
    [k \in 1..Len(df) |-> IF df[k].biased THEN One
                          ELSE Norm(<<RCount(df), Len(df) - RCount(df)>>)]

\* estimator.fit(data, y, sample_weight)
Fit(data, y, w) == [fitted |-> TRUE, data |-> data, y |-> y, sample_weight |-> w]

IdleTr ==
    /\ tr_df = <<>>
    /\ model_type = "logistic"
    /\ bias_only = FALSE
    /\ tr_pc = "idle"
    /\ fit_orig = NotFitted
    /\ fit_bias = NotFitted

InitTr ==
    /\ tr_df \in LabelledFrames(MaxTrainRows)
    /\ model_type \in ModelTypes
    /\ bias_only \in BOOLEAN
    /\ tr_pc = "call"
    /\ fit_orig = NotFitted
    /\ fit_bias = NotFitted

\* lines 111-118: the pipelines are fitted with model__sample_weight
TrainPipeline ==
    /\ tr_pc = "call"
    /\ ~(model_type \in {"mlp", "lstm"})
    /\ fit_orig' = IF ~bias_only
                   THEN Fit(Column(tr_df, "reviews"), Column(tr_df, "label_orig"),
                            SampleWeightOrig(tr_df))
                   ELSE fit_orig
    /\ fit_bias' = Fit(Column(tr_df, "reviews"), Column(tr_df, "label_bias"),
                       SampleWeightBias(tr_df))
    /\ tr_pc' = "done"
    /\ UNCHANGED <<tr_df, model_type, bias_only>>
    /\ UNCHANGED restOfTr

\* lines 86-110: the last step is fitted on its own, on a dict of the
\* transformed data and a sample weight: X_train_bias carries
\* sample_weight_orig and X_train_orig carries sample_weight_bias
TrainNet ==
    /\ tr_pc = "call"
    /\ model_type \in {"mlp", "lstm"}
    /\ LET X_train == Column(tr_df, "reviews")
           X_train_bias == [data |-> X_train, sample_weight |-> SampleWeightOrig(tr_df)]
           X_train_orig == [data |-> X_train, sample_weight |-> SampleWeightBias(tr_df)]
       IN  /\ fit_orig' = IF ~bias_only
                          THEN Fit(X_train_orig.data, Column(tr_df, "label_orig"),
                                   X_train_orig.sample_weight)
                          ELSE fit_orig
           /\ fit_bias' = Fit(X_train_bias.data, Column(tr_df, "label_bias"),
                              X_train_bias.sample_weight)
    /\ tr_pc' = "done"
    /\ UNCHANGED <<tr_df, model_type, bias_only>>
    /\ UNCHANGED restOfTr

NextTr ==
    \/ TrainPipeline
    \/ TrainNet

----------------------------------------------------------------------------
(* utils.evaluate_models (src/utils.py, lines 127-169).  A frame here is   *)
(* its column names and its rows, a row being a function of the column     *)
(* names.  A fitted model is the label it predicts for each review.  A     *)
(* score is a fraction; <<0, 0>> is the mean of no value (nan).            *)

TestColumns == <<"reviews", "label_orig", "label_bias", "biased">>

RECURSIVE Range(_)
Range(sq) == IF sq = <<>> THEN {} ELSE {Head(sq)} \cup Range(Tail(sq))

TestFrames == {[columns |-> TestColumns, rows |-> f] :
                  f \in LabelledFrames(MaxTestRows) \ {<<>>}}

Predictors == [0..1 -> 0..1]

\* test_df[col].values
Values(df, col) == [k \in 1..Len(df.rows) |-> df.rows[k][col]]

\* model.predict(X)
Predict(model, X) == [k \in 1..Len(X) |-> model[X[k]]]

\* test_df[col] = values: the frame itself gets the column
SetColumn(df, col, v) ==
    [columns |-> IF col \in Range(df.columns) THEN df.columns ELSE Append(df.columns, col),
     rows |-> [k \in 1..Len(df.rows) |-> Put(df.rows[k], col, v[k])]]

RECURSIVE Select(_, _)
\* test_df[mask]: the rows the mask holds for, in a new frame
Select(rows, keep) ==
    IF rows = <<>> THEN <<>>
    ELSE (IF Head(rows).biased = keep THEN <<Head(rows)>> ELSE <<>>)
         \o Select(Tail(rows), keep)

\* accuracy_score(y_true, y_pred)
Accuracy(y, pred) == Norm(<<Cardinality({k \in 1..Len(y) : y[k] = pred[k]}), Len(y)>>)

\* f1_score(y_true, y_pred): 2 tp / (2 tp + fp + fn), and 0 when that is 0 / 0
F1(y, pred) ==
    LET tp == Cardinality({k \in 1..Len(y) : y[k] = 1 /\ pred[k] = 1})
        fp == Cardinality({k \in 1..Len(y) : y[k] = 0 /\ pred[k] = 1})
        fn == Cardinality({k \in 1..Len(y) : y[k] = 1 /\ pred[k] = 0})
    IN  IF 2 * tp + fp + fn = 0 THEN Zero ELSE Norm(<<2 * tp, 2 * tp + fp + fn>>)

\* the accuracy of one model on one part of the frame
PartAccuracy(rows, label, prediction) ==
    Accuracy([k \in 1..Len(rows) |-> rows[k][label]],
             [k \in 1..Len(rows) |-> rows[k][prediction]])

IdleEv ==
    /\ test_df = [columns |-> TestColumns, rows |-> <<>>]
    /\ model_orig = [x \in 0..1 |-> 0]
    /\ model_bias = [x \in 0..1 |-> 0]
    /\ ev_runlog = [test_name |-> TEST_NAME]
    /\ ev_pc = "idle"
    /\ ev_in = [test_df |-> test_df, model_orig |-> model_orig,
                model_bias |-> model_bias, runlog |-> ev_runlog]

\* ev_in keeps the arguments as they were at the call
InitEv ==
    /\ test_df \in TestFrames
    /\ model_orig \in Predictors
    /\ model_bias \in Predictors
    /\ ev_runlog = [test_name |-> TEST_NAME, seed |-> 0]
    /\ ev_pc = "call"
    /\ ev_in = [test_df |-> test_df, model_orig |-> model_orig,
                model_bias |-> model_bias, runlog |-> ev_runlog]

\* lines 130-169: predictions are stored in the frame given, the scores in the
\* run log
EvaluateModels ==
    /\ ev_pc = "call"
    /\ LET X == Values(test_df, "reviews")
           y_orig == Values(test_df, "label_orig")
           y_bias == Values(test_df, "label_bias")
           y_pred_orig == Predict(model_orig, X)
           y_pred_bias == Predict(model_bias, X)
           df == SetColumn(SetColumn(test_df, "predict_orig", y_pred_orig),
                           "predict_bias", y_pred_bias)
           test_r == Select(df.rows, TRUE)
           test_nr == Select(df.rows, FALSE)
           scored == Put(Put(Put(Put(ev_runlog,
                        "orig_test_acc", Accuracy(y_orig, y_pred_orig)),
                        "bias_test_acc", Accuracy(y_bias, y_pred_bias)),
                        "orig_test_f1", F1(y_orig, y_pred_orig)),
                        "bias_test_f1", F1(y_bias, y_pred_bias))
       IN  /\ test_df' = df
           /\ ev_runlog' = Put(scored, "results",
                  << <<PartAccuracy(test_r, "label_orig", "predict_orig"),
                       PartAccuracy(test_nr, "label_orig", "predict_orig")>>,
                     <<PartAccuracy(test_r, "label_bias", "predict_bias"),
                       PartAccuracy(test_nr, "label_bias", "predict_bias")>> >>)
    /\ ev_pc' = "done"
    /\ UNCHANGED <<model_orig, model_bias, ev_in>>
    /\ UNCHANGED restOfEv

NextEv ==
    \/ EvaluateModels

----------------------------------------------------------------------------
(* utils.save_log (src/utils.py, lines 172-219), called as run_seed calls  *)
(* it, with LOG_PATH (src/budget_test.py, line 206).  A path is the        *)
(* sequence of its pieces, "/" being the separator os.path.join puts in.   *)

\* --log-dir as given on the command line (its default is LOG_PATH)
LogDirs == {LOG_PATH, "results"}

\* the run logs handed to save_log
RunLogs == [test_name : {"budget_test", "bias_test"}, dataset : {"imdb"},
            model_type : {"dt"}, explainer : {"LIME", "Random"}, seed : {7, 12},
            bias_len : {1, 2}, budget : {1, 5}, example_id : {0, 1},
            toy : BOOLEAN]

RECURSIVE PathJoin(_)
\* os.path.join(*parts), for parts that hold no separator
PathJoin(parts) ==
    IF Len(parts) = 1 THEN Head(parts)
    ELSE Head(parts) \o <<"/">> \o PathJoin(Tail(parts))

\* lines 178-200: directory
Directory(dir, rl) ==
    IF rl.test_name = "budget_test"
    THEN PathJoin(<< <<dir>>, <<rl.test_name>>, <<rl.dataset>>, <<rl.model_type>>,
                     <<rl.explainer>>,
                     <<"seed_">> \o FmtD(rl.seed, 2),
                     <<"bias_len_">> \o FmtD(rl.bias_len, 1),
                     <<"budget_">> \o FmtD(rl.budget, 3) >>)
    ELSE PathJoin(<< <<dir>>, <<rl.test_name>>, <<rl.dataset>>, <<rl.model_type>> >>)

\* lines 185-187 and 200: filename
LogFileName(rl) ==
    IF rl.test_name = "budget_test"
    THEN FmtD(rl.example_id, 3) \o <<".json">>
    ELSE FmtD(rl.bias_len, 1) \o <<"_">> \o FmtD(rl.seed, 3) \o <<".json">>

\* line 216: log_path
LogPath(dir, rl) == PathJoin(<<Directory(dir, rl), LogFileName(rl)>>)

\* with open(log_path, 'w'): the file is created or replaced
WriteFile(fs, path, rl) == {f \in fs : f.path # path} \cup {[path |-> path, runlog |-> rl]}

IdleSl ==
    /\ log_dir = LOG_PATH
    /\ files = {}
    /\ saves = <<>>
    /\ sl_pc = "idle"

InitSl ==
    /\ log_dir \in LogDirs
    /\ files = {}
    /\ saves = <<>>
    /\ sl_pc = "run"

\* budget_test.py line 206 and utils.py lines 178-219: the record is written
\* under LOG_PATH
SaveLog ==
    /\ sl_pc = "run"
    /\ Len(saves) < MaxSaves
    /\ \E rl \in RunLogs :
         /\ ~rl.toy
         /\ files' = WriteFile(files, LogPath(LOG_PATH, rl), rl)
         /\ saves' = Append(saves, [path |-> LogPath(LOG_PATH, rl), runlog |-> rl])
    /\ UNCHANGED <<log_dir, sl_pc>>
    /\ UNCHANGED restOfSl

\* utils.py lines 203-205: assert False for a toy run
SaveLogToy ==
    /\ sl_pc = "run"
    /\ Len(saves) < MaxSaves
    /\ \E rl \in RunLogs : rl.toy
    /\ sl_pc' = "AssertionError"
    /\ UNCHANGED <<log_dir, files, saves>>
    /\ UNCHANGED restOfSl

NextSl ==
    \/ SaveLog
    \/ SaveLogToy

----------------------------------------------------------------------------
(* One process running run_seed for several seeds                          *)
(* (src/budget_test.py, lines 64-87, 158-164 and 260-270)                  *)

\* the process that runs several seeds, and a process of the same invocation
\* that runs the last of them as its first
Procs == {"shared", "fresh"}

\* the seeds a process may be given
ProcSeeds == 0..(MaxProcSeeds - 1)

\* the sequences of distinct seeds of a given length
SeedRuns(n) ==
    {q \in [1..n -> ProcSeeds] : \A a, b \in 1..n : a # b => q[a] # q[b]}

\* the generator of a process before any call of np.random.seed: seeded from
\* the system's entropy
Entropy == [kind |-> "entropy", seed |-> 0, draws |-> 0]

\* a generator that keeps its state
NoReseed(rng, seed) == rng

\* line 87, np.random.seed(seed): the state is a function of the seed alone
Reseed(rng, seed) == [kind |-> "seeded", seed |-> seed, draws |-> 0]

\* a draw from the global generator advances its state
Draw(rng) == [rng EXCEPT !.draws = @ + 1]

\* line 79: if args.quiet: sys.stdout = open(os.devnull, 'w')
Redirect(out, quiet) == IF quiet THEN "devnull" ELSE out

\* line 82: runlog = {}
NewRunLog == <<>>

\* no call of run_seed is on the stack
NoFrame == [pc |-> "idle", seed |-> 0, runlog |-> NewRunLog]

\* the seed of the call a process is at
Task(p) == plan[p][at[p]]

\* the seed both processes run: the last of "shared", the first of "fresh"
LaterSeed == plan["fresh"][1]

\* the module-level state of a process at the call of run_seed
ProcessState(p) ==
    [EXPLAINERS |-> proc_EXPLAINERS[p], stdout |-> sys_stdout[p], rng |-> np_random[p]]

\* what the call for seed s of process p is seen to read under key k
Note(p, s, k, v) == [seen EXCEPT ![p][s] = Put(@, k, v)]

IdleProc ==
    /\ proc_args = [model |-> "dt", quiet |-> FALSE]
    /\ runner = "loop"
    /\ plan = [p \in Procs |-> <<0>>]
    /\ at = [p \in Procs |-> 2]
    /\ sys_stdout = [p \in Procs |-> "stdout"]
    /\ proc_EXPLAINERS = [p \in Procs |-> BaseExplainers]
    /\ np_random = [p \in Procs |-> Entropy]
    /\ frame = [p \in Procs |-> NoFrame]
    /\ seen = [p \in Procs |-> [s \in ProcSeeds |-> <<>>]]

\* lines 44-70 and 260-270: every process of an invocation has the same args
\* and the module's globals as the import left them
InitProc ==
    /\ proc_args \in [model : MODELS, quiet : BOOLEAN]
    /\ runner \in {"loop", "worker"}
    /\ \E n \in 2..MaxProcSeeds : \E q \in SeedRuns(n) :
         plan = [p \in Procs |-> IF p = "shared" THEN q ELSE <<q[n]>>]
    /\ at = [p \in Procs |-> 1]
    /\ sys_stdout = [p \in Procs |-> "stdout"]
    /\ proc_EXPLAINERS = [p \in Procs |-> BaseExplainers]
    /\ np_random = [p \in Procs |-> Entropy]
    /\ frame = [p \in Procs |-> NoFrame]
    /\ seen = [p \in Procs |-> [s \in ProcSeeds |-> <<>>]]

\* lines 72-84: run_seed is called for the next seed of the process; stdout is
\* redirected under --quiet and the run log is created
BeginRun(p) ==
    /\ frame[p].pc = "idle"
    /\ at[p] <= Len(plan[p])
    /\ sys_stdout' = [sys_stdout EXCEPT ![p] = Redirect(@, proc_args.quiet)]
    /\ frame' = [frame EXCEPT ![p] =
                   [pc |-> "seed", seed |-> Task(p),
                    runlog |-> Put(Put(NewRunLog, "test_name", TEST_NAME),
                                   "seed", Task(p))]]
    /\ seen' = [seen EXCEPT ![p][Task(p)] =
                  Put(Put(@, "entry", ProcessState(p)), "runlog", DOMAIN NewRunLog)]
    /\ UNCHANGED <<proc_args, runner, plan, at, proc_EXPLAINERS, np_random>>
    /\ UNCHANGED restOfProc

\* lines 86-87: the banner is printed to sys.stdout and the generator is seeded
SeedGenerator(p) ==
    /\ frame[p].pc = "seed"
    /\ seen' = Note(p, frame[p].seed, "stdout", sys_stdout[p])
    /\ np_random' = [np_random EXCEPT ![p] = Reseed(@, frame[p].seed)]
    /\ frame' = [frame EXCEPT ![p].pc = "pipeline"]
    /\ UNCHANGED <<proc_args, runner, plan, at, sys_stdout, proc_EXPLAINERS>>
    /\ UNCHANGED restOfProc

\* run_seed returns or raises: the sequential loop ends at an exception (lines
\* 269-270), a pool worker goes on with its next task (lines 265-266)
Leave(p, failed) ==
    /\ frame' = [frame EXCEPT ![p] = NoFrame]
    /\ at' = [at EXCEPT ![p] = IF failed /\ runner = "loop" THEN Len(plan[p]) + 1
                                ELSE @ + 1]

\* lines 89-156: the corpus is split, biased, resampled and the models are
\* trained with draws from the global generator
Pipeline(p) ==
    /\ frame[p].pc = "pipeline"
    /\ seen' = Note(p, frame[p].seed, "rng", np_random[p])
    /\ np_random' = [np_random EXCEPT ![p] = Draw(@)]
    /\ frame' = [frame EXCEPT ![p].pc = "resolve",
                              ![p].runlog = Put(@, "n_samples", N_SAMPLES)]
    /\ UNCHANGED <<proc_args, runner, plan, at, sys_stdout, proc_EXPLAINERS>>
    /\ UNCHANGED restOfProc

\* lines 89-92: load_dataset raises before anything is drawn
PipelineRaises(p) ==
    /\ frame[p].pc = "pipeline"
    /\ Leave(p, TRUE)
    /\ UNCHANGED <<proc_args, runner, plan, sys_stdout, proc_EXPLAINERS,
                   np_random, seen>>
    /\ UNCHANGED restOfProc

\* lines 158-162: 'Ground Truth' is set in the module's EXPLAINERS
ResolveGlobal(p) ==
    /\ frame[p].pc = "resolve"
    /\ proc_EXPLAINERS' =
         [proc_EXPLAINERS EXCEPT ![p] =
            IF proc_args.model = "logistic" THEN SetGroundTruth(@)
            ELSE IF proc_args.model = "dt" \/ proc_args.model = "rf"
                 THEN SetGroundTruth(@)
                 ELSE @]
    /\ frame' = [frame EXCEPT ![p].pc = "sweep"]
    /\ UNCHANGED <<proc_args, runner, plan, at, sys_stdout, np_random, seen>>
    /\ UNCHANGED restOfProc

\* lines 164-206: the loop over EXPLAINERS runs to its end and run_seed
\* returns; the explainers may or may not draw from the global generator
SweepReturns(p) ==
    /\ frame[p].pc = "sweep"
    /\ seen' = Note(p, frame[p].seed, "registry", proc_EXPLAINERS[p])
    /\ \E drawn \in BOOLEAN :
         np_random' = [np_random EXCEPT ![p] = IF drawn THEN Draw(@) ELSE @]
    /\ Leave(p, FALSE)
    /\ UNCHANGED <<proc_args, runner, plan, sys_stdout, proc_EXPLAINERS>>
    /\ UNCHANGED restOfProc

\* lines 164-206: an explainer raises inside the loop over EXPLAINERS
SweepRaises(p) ==
    /\ frame[p].pc = "sweep"
    /\ seen' = Note(p, frame[p].seed, "registry", proc_EXPLAINERS[p])
    /\ Leave(p, TRUE)
    /\ UNCHANGED <<proc_args, runner, plan, sys_stdout, proc_EXPLAINERS,
                   np_random>>
    /\ UNCHANGED restOfProc

NextProc ==
    \/ \E p \in Procs : BeginRun(p)
    \/ \E p \in Procs : SeedGenerator(p)
    \/ \E p \in Procs : Pipeline(p)
    \/ \E p \in Procs : PipelineRaises(p)
    \/ \E p \in Procs : ResolveGlobal(p)
    \/ \E p \in Procs : SweepReturns(p)
    \/ \E p \in Procs : SweepRaises(p)

----------------------------------------------------------------------------
(* The specifications *)

\* the budget sweep of one seed
Init == InitSweep /\ IdleOrch /\ IdleOv /\ IdleTr /\ IdleEv /\ IdleSl /\ IdleProc
Next == NextSweep
Spec == Init /\ [][Next]_vars

\* the orchestrator over a range of seeds
InitOrchestrator == InitOrch /\ IdleSweep /\ IdleOv /\ IdleTr /\ IdleEv /\ IdleSl /\ IdleProc
SpecOrch == InitOrchestrator /\ [][NextOrch]_vars

\* one call of oversample
InitOversample == InitOv /\ IdleSweep /\ IdleOrch /\ IdleTr /\ IdleEv /\ IdleSl /\ IdleProc
SpecOversample == InitOversample /\ [][NextOv]_vars

\* one call of train_models
InitTrain == InitTr /\ IdleSweep /\ IdleOrch /\ IdleOv /\ IdleEv /\ IdleSl /\ IdleProc
SpecTrain == InitTrain /\ [][NextTr]_vars

\* one call of evaluate_models
InitEvaluate == InitEv /\ IdleSweep /\ IdleOrch /\ IdleOv /\ IdleTr /\ IdleSl /\ IdleProc
SpecEval == InitEvaluate /\ [][NextEv]_vars

\* the records of a run saved one after another
InitSaveLog == InitSl /\ IdleSweep /\ IdleOrch /\ IdleOv /\ IdleTr /\ IdleEv /\ IdleProc
SpecLog == InitSaveLog /\ [][NextSl]_vars

\* two processes of one invocation running run_seed for their seeds
InitProcess ==
    InitProc /\ IdleSweep /\ IdleOrch /\ IdleOv /\ IdleTr /\ IdleEv /\ IdleSl
SpecProc == InitProcess /\ [][NextProc]_vars

----------------------------------------------------------------------------
(* Properties of the budget sweep *)

ResolvedExplainers == {"Random", "Greedy", "LIME", "SHAP(kmeans)", "Ground Truth"}

RecordsOf(e, b) == {k \in 1..Len(log) : log[k].explainer = e /\ log[k].budget = b}

InUnit(q) == RatLeq(Zero, q) /\ RatLeq(q, One)

\* C1: when run_seed returns without an error, every (explainer, budget) with the
\* explainer in the resolved set and the budget in 1..MAX_BUDGET has exactly one
\* persisted record, in a file of its own, and there is no other record; and at
\* any time a pair with a record has had explain invoked on all n_samples instances.
SweepComplete ==
    /\ \A k \in 1..Len(log) :
         explain_calls[<<log[k].explainer, log[k].budget>>] = n_samples
    /\ pc = "done" =>
         /\ \A e \in ResolvedExplainers : \A b \in 1..MAX_BUDGET :
              Cardinality(RecordsOf(e, b)) = 1
         /\ Len(log) = Cardinality(ResolvedExplainers) * MAX_BUDGET
         /\ \A k1, k2 \in 1..Len(log) : k1 # k2 => log[k1].file # log[k2].file

SweepCompleteWitness ==
    /\ pc = "done"
    /\ n_samples = MaxExplain
    /\ Cardinality(RecordsOf("Ground Truth", MAX_BUDGET)) = 1

\* C2: the recall of every explained instance, the mean recall put in the run log
\* and the mean recall of every record written lie between 0 and 1.
RecallBounds ==
    /\ InUnit(recall)
    /\ "recall" \in DOMAIN runlog => InUnit(runlog["recall"])
    /\ "recall" \in DOMAIN written => InUnit(written["recall"])

RecallBoundsWitness ==
    /\ "recall" \in DOMAIN written
    /\ written["recall"] = <<1, 2>>
    /\ written["budget"] = MAX_BUDGET
    /\ recall_sum = One

\* C3: when an explainer raises, only its own sweep is abandoned: once run_seed
\* has ended, every explainer later in the iteration has its MAX_BUDGET records.
ExplainerIsolation ==
    (pc \in {"done", "error"} /\ raised # NoName) =>
        \A k \in 1..Len(EXPLAINERS) :
            (\E j \in 1..(k - 1) : EXPLAINERS[j] = raised) =>
                \A b \in 1..MAX_BUDGET : RecordsOf(EXPLAINERS[k], b) # {}

----------------------------------------------------------------------------
(* Properties of the orchestrator *)

Ended == main_pc \in {"exit", "raised"}

\* C4: every seed of the range is dispatched exactly once, and when the program
\* has ended, every seed has completed or failed, whatever failed before it.
SeedIsolation ==
    Ended => \A s \in Seeds(cli) : dispatched[s] = 1 /\ status[s] \in {"done", "failed"}

\* the same for the pool alone: it fails once a task holds more than one seed
PoolSeedIsolation == POOL_SIZE > 1 => SeedIsolation

NoSeedStarted == \A s \in AllSeeds : status[s] = "pending" /\ dispatched[s] = 0

\* C5 as stated: an invalid model name, an empty seed range and an insufficient
\* vocabulary are each detected before run_seed has started for any seed.
ConfigFailsFast ==
    (main_pc \in {"assert_seeds", "assert_model"} \/ "InsufficientVocabulary" \in errors)
        => NoSeedStarted

\* C5 as amended: with an invalid model name or an empty seed range no run_seed
\* ever starts and the program ends at the assertion; an insufficient vocabulary
\* is detected only inside the run_seed of a seed, after that run has started.
ConfigFailsFastAmended ==
    /\ (~(cli.model \in MODELS) \/ cli.seed_low >= cli.seed_high) =>
         (main_pc \in {"parse", "assert_seeds", "assert_model"} /\ NoSeedStarted)
    /\ main_pc \in {"assert_seeds", "assert_model"} => NoSeedStarted
    /\ "InsufficientVocabulary" \in errors =>
         \E s \in Seeds(cli) : status[s] = "failed" /\ dispatched[s] = 1

ConfigFailsFastWitness ==
    /\ "InsufficientVocabulary" \in errors
    /\ main_pc = "raised"
    /\ \E s \in Seeds(cli) : status[s] = "done"

----------------------------------------------------------------------------
(* Properties of oversample *)

Added == (Len(train_df) + 1)..Len(resampled)

\* C6: when oversample returns, the result has as many non-biased rows as the
\* input, the rows of the input are all there unchanged, every added row equals
\* a biased row of the input, and with r_factor 1.0 the result has as many
\* biased rows as non-biased rows.
ResamplingPreservesContent ==
    ov_pc = "returned" =>
        /\ Count(resampled, FALSE) = Count(train_df, FALSE)
        /\ Len(resampled) >= Len(train_df)
        /\ SubSeq(resampled, 1, Len(train_df)) = train_df
        /\ \A k \in Added : \E j \in 1..Len(train_df) :
               train_df[j].biased /\ resampled[k] = train_df[j]
        /\ r_factor[1] = r_factor[2] => Count(resampled, TRUE) = Count(resampled, FALSE)

ResamplingPreservesContentWitness ==
    /\ ov_pc = "returned"
    /\ r_factor[1] = r_factor[2]
    /\ Len(resampled) = Len(train_df) + 2
    /\ Count(train_df, TRUE) = 1

InClaimedRange(rf) == 0 < rf[1] /\ rf[1] <= rf[2]

Acted == ov_pc \in {"returned", "AssertionError", "LookupError"}

\* C10 as stated: on a frame with both kinds of rows and r_factor in (0, 1],
\* oversample fails with the assertion exactly if the biased rows are at least
\* as many as the non-biased rows, and returns whenever they are fewer.
ResamplerDirection ==
    (Acted /\ BothClasses(train_df) /\ InClaimedRange(r_factor)) =>
        /\ ov_pc = "AssertionError" <=> Count(train_df, TRUE) >= Count(train_df, FALSE)
        /\ Count(train_df, TRUE) < Count(train_df, FALSE) => ov_pc = "returned"

\* C10 as amended: on such a frame oversample fails with the assertion exactly
\* if (non-biased - biased) * r_factor is less than 1, and returns otherwise; so
\* it fails whenever the biased rows are at least as many as the non-biased
\* rows, and with r_factor 1.0 only then.
ResamplerDirectionAmended ==
    (Acted /\ BothClasses(train_df) /\ InClaimedRange(r_factor)) =>
        LET d == Count(train_df, FALSE) - Count(train_df, TRUE) IN
        /\ ov_pc = "AssertionError" <=> d * r_factor[1] < r_factor[2]
        /\ ov_pc = "returned" <=> d * r_factor[1] >= r_factor[2]
        /\ d <= 0 => ov_pc = "AssertionError"
        /\ r_factor[1] = r_factor[2] => (ov_pc = "AssertionError" <=> d <= 0)

ResamplerDirectionWitness ==
    /\ ov_pc = "AssertionError"
    /\ BothClasses(train_df)
    /\ InClaimedRange(r_factor)
    /\ Count(train_df, TRUE) < Count(train_df, FALSE)

----------------------------------------------------------------------------
(* Properties of train_models and evaluate_models *)

\* C9: whatever the model type, the original model is fitted on label_orig with
\* every weight 1.0, the biased model on label_bias with weight 1.0 for a biased
\* row and r / nr for a non-biased row, and both on the same rows.
SampleWeightWiring ==
    tr_pc = "done" =>
        LET r == Cardinality({k \in 1..Len(tr_df) : tr_df[k].biased})
            nr == Len(tr_df) - r
        IN
        /\ fit_bias.fitted
        /\ fit_bias.y = [k \in 1..Len(tr_df) |-> tr_df[k].label_bias]
        /\ \A k \in 1..Len(tr_df) :
             /\ tr_df[k].biased => fit_bias.sample_weight[k] = <<1, 1>>
             /\ ~tr_df[k].biased => fit_bias.sample_weight[k][1] * nr
                                    = r * fit_bias.sample_weight[k][2]
        /\ ~bias_only =>
             /\ fit_orig.fitted
             /\ fit_orig.y = [k \in 1..Len(tr_df) |-> tr_df[k].label_orig]
             /\ \A k \in 1..Len(tr_df) : fit_orig.sample_weight[k] = <<1, 1>>
             /\ fit_orig.data = fit_bias.data

MetricKeys == {"orig_test_acc", "bias_test_acc", "orig_test_f1", "bias_test_f1", "results"}

\* C7: after evaluate_models the test frame has the columns and the row values
\* it had at the call, both models are as they were, and the run log has gained
\* the metric entries and nothing else.
EvaluatorReadOnly ==
    ev_pc = "done" =>
        /\ test_df.columns = ev_in.test_df.columns
        /\ test_df.rows = ev_in.test_df.rows
        /\ model_orig = ev_in.model_orig
        /\ model_bias = ev_in.model_bias
        /\ DOMAIN ev_runlog = DOMAIN ev_in.runlog \cup MetricKeys
        /\ \A key \in DOMAIN ev_in.runlog : ev_runlog[key] = ev_in.runlog[key]

----------------------------------------------------------------------------
(* Properties of save_log *)

IndexKey(rl) == <<rl.test_name, rl.dataset, rl.model_type, rl.explainer, rl.seed,
                  rl.bias_len, rl.budget>>

BudgetSaves == {k \in 1..Len(saves) : saves[k].runlog.test_name = "budget_test"}

\* two budget_test records that differ in explainer, seed, bias length or budget
\* are written to different paths
SaveLogCollisionFree ==
    \A k1, k2 \in BudgetSaves :
        IndexKey(saves[k1].runlog) # IndexKey(saves[k2].runlog)
            => saves[k1].path # saves[k2].path

\* C8: the path of a budget_test record starts at the log directory configured
\* for the run and is decided by the index fields and the file name alone, and
\* records that differ in explainer, seed, bias length or budget have
\* different paths.
LogPathIndex ==
    /\ \A k \in BudgetSaves : Head(saves[k].path) = log_dir
    /\ \A k1, k2 \in BudgetSaves :
         (/\ IndexKey(saves[k1].runlog) = IndexKey(saves[k2].runlog)
          /\ saves[k1].runlog.example_id = saves[k2].runlog.example_id)
            => saves[k1].path = saves[k2].path
    /\ SaveLogCollisionFree

----------------------------------------------------------------------------
(* Properties of the seeds one process runs one after another *)

\* what a call of run_seed reads of the state outside its arguments
ReadKeys == {"runlog", "stdout", "rng", "registry"}

\* the call of process p for the seed both processes run agrees, on the keys
\* of ks that both calls have reached, with the call of the fresh process
AgreeOn(ks) ==
    \A k \in ks :
        (k \in DOMAIN seen["shared"][LaterSeed] /\ k \in DOMAIN seen["fresh"][LaterSeed])
            => seen["shared"][LaterSeed][k] = seen["fresh"][LaterSeed][k]

\* C11 as stated: the call for a later seed of a process starts from the state
\* the call would start from as the first of its process -- the module-level
\* state at its entry included -- with an empty run log and the same registry
\* iterated, generator state and standard output read.
SeedStartsFresh ==
    /\ AgreeOn(ReadKeys \cup {"entry"})
    /\ \A p \in Procs : \A s \in ProcSeeds :
         "runlog" \in DOMAIN seen[p][s] => seen[p][s]["runlog"] = {}

\* C11 amended: the module-level state at the entry of a later call is not that
\* of a first call, but everything the call reads is set again before it is
\* read: its run log starts empty, and the registry it iterates over, the
\* generator state it draws from and the standard output it prints to are those
\* of a first call for the same seed, whatever the earlier calls did.
SeedReadsFresh ==
    /\ AgreeOn(ReadKeys)
    /\ \A p \in Procs : \A s \in ProcSeeds :
         "runlog" \in DOMAIN seen[p][s] => seen[p][s]["runlog"] = {}

\* both processes have run the common seed to the loop over EXPLAINERS, the
\* shared one after an earlier call that set 'Ground Truth', redirected stdout
\* and drew from the generator
SeedReadsFreshWitness ==
    /\ "registry" \in DOMAIN seen["shared"][LaterSeed]
    /\ "registry" \in DOMAIN seen["fresh"][LaterSeed]
    /\ seen["shared"][LaterSeed]["entry"].EXPLAINERS = SetGroundTruth(BaseExplainers)
    /\ seen["shared"][LaterSeed]["entry"].stdout = "devnull"
    /\ seen["shared"][LaterSeed]["entry"].rng.draws > 0
    /\ seen["shared"][LaterSeed]["entry"] # seen["fresh"][LaterSeed]["entry"]

====
